---- MODULE Spec2Model ----
(***************************************************************************)
(* Model of scrapy_warcio: the WARC writer ScrapyWarcIo (warcio.py) and    *)
(* the downloader middleware that drives it (middlewares.py).              *)
(*                                                                         *)
(* The writer is single-threaded and synchronous: every call of            *)
(* write(response, request) runs to its return or to the exception that    *)
(* ends it, so each handler is one action.  Inside a handler the methods   *)
(* are operators on a record m that carries the writer's fields            *)
(* (warc_fname, warc_count, warc_size), the file system, the identifier    *)
(* generator and the exception in flight (m.err).                          *)
(*                                                                         *)
(* Sizes are in abstract units.  A segment path is the triple              *)
(* (destination, timestamp, serial); the prefix and the host name are the  *)
(* same in every name of one writer and are left out.                      *)
(***************************************************************************)
EXTENDS Integers, Sequences, FiniteSets, TLC

\* ---------------------------------------------------------------- bounds
MaxCalls == 2        \* write() calls in one behaviour
MaxWarcSize == 4     \* config['max_warc_size'] is MaxWarcSize - 1 or MaxWarcSize
MaxContent == 2      \* sys.getsizeof(content) is drawn from 1..MaxContent
MaxFaults == 1       \* I/O faults (a failing open or write) in one behaviour
MaxDepth == 3        \* nesting of write_record at which the interpreter gives up

\* ------------------------------------------------------- program constants
WARC_SERIAL_ZFILL == 5

\* str(n): the decimal digits of n, most significant first
RECURSIVE str(_)
str(n) == IF n < 10 THEN <<n>> ELSE Append(str(n \div 10), n % 10)

\* s.zfill(w): s left-padded with zeros to width w, never shortened
zfill(s, w) == IF Len(s) >= w THEN s ELSE [i \in 1..(w - Len(s)) |-> 0] \o s

\* int(s) of a digit string
RECURSIVE int(_)
int(s) == IF s = <<>> THEN 0 ELSE 10 * int(SubSeq(s, 1, Len(s) - 1)) + s[Len(s)]

\* '9' * WARC_SERIAL_ZFILL, then int(...)
max_serial == int([i \in 1..WARC_SERIAL_ZFILL |-> 9])

\* ------------------------------------------------------------ value space
\* the clock: timestamps are only ever compared for equality (two names
\* collide, two dates agree), so two seconds stand for all
Times == {0, 1}
LastTime == CHOOSE t \in Times : \A u \in Times : u <= t
NoDate == -1                      \* meta has no (or a falsy) 'WARC-Date'
NoId == -1                        \* header absent
None == [dest |-> "None", ts |-> -1, serial |-> <<>>]
Path(dest, ts, serial) == [dest |-> dest, ts |-> ts, serial |-> serial]

\* destinations a configuration may name; only the working directory ("")
\* and the directories of Dirs exist
Dests == {"", "/nonexistent"}
Dirs == {}

\* an I/O fault hits the at-th append of a call: open() raises OSError and
\* nothing is created, or the write raises it after open() has created the
\* file; the file then holds no new complete record (bytes of a cut-off
\* frame are not counted in its size)
NoFault == [at |-> 0, mode |-> "ok"]
Faults == {[at |-> k, mode |-> md] : k \in 1..4, md \in {"open", "write"}}

VARIABLES
    warc_fname,   \* self.warc_fname: the current segment's path, or None
    warc_count,   \* self.warc_count: the serial counter
    warc_size,    \* self.warc_size: the size last read from disk
    config,       \* self.config: max_warc_size and warc_dest
    fs,           \* the files on disk: path -> [recs, size, own]
    now,          \* the clock, in seconds
    nextId,       \* state of the uuid1 generator
    pending,      \* the dates stamped on the requests in flight
    faults,       \* history: I/O faults so far
    created,      \* history: the paths of the files this writer created, in order
    calls,        \* history: number of write() calls made
    exhausted,    \* history: a call has failed on the serial limit
    last          \* history: the last write() call, its outcome and its steps

vars == <<warc_fname, warc_count, warc_size, config, fs, now, nextId,
          pending, faults, created, calls, exhausted, last>>


\* ------------------------------------------------------- handler machinery
\* m: the writer's fields, the disk and the bookkeeping of one handler run.
\* env: what the handler reads from outside: the clock t, the configuration
\* cfg and the I/O fault (if any) that hits the fault.at-th file append.
Event(ev, path, count, exists, size, bytes, create, err) ==
    [ev |-> ev, path |-> path, count |-> count, exists |-> exists,
     size |-> size, bytes |-> bytes, create |-> create, err |-> err]

raise(m, e, path) ==
    [m EXCEPT !.err = e,
              !.log = Append(@, Event("raise", path, m.count, FALSE, 0, 0, FALSE, e))]

\* warc_date(): the current UTC time, second precision
warc_date(env) == env.t

\* __record_id(): uuid1() never returns the same value twice in one process
record_id(m) == m.nextId
took_id(m) == [m EXCEPT !.nextId = @ + 1]

Headers(type, date, id, concurrent_to, filename) ==
    [type |-> type, date |-> date, id |-> id,
     concurrent_to |-> concurrent_to, filename |-> filename]

\* faulty variant: a current path without a file on disk counts as full
create_new_warc_Absent(fname, exists, size, content_bytes, max) ==
    IF fname = None THEN TRUE
    ELSE ~exists \/ size + content_bytes >= max

\* faulty variant: the threshold is compared with > instead of >=
create_new_warc_Strict(fname, exists, size, content_bytes, max) ==
    IF fname = None THEN TRUE
    ELSE exists /\ size + content_bytes > max

\* the rotation decision of bump_serial
create_new_warc(fname, exists, size, content_bytes, max) ==
    IF fname = None THEN TRUE
    ELSE exists /\ size + content_bytes >= max

\* faulty variant: the test for an existing file is missing
warcfile_NoExistsCheck(m, env) ==
    IF m.count > max_serial
    THEN [err |-> "ValueError:max_serial", fname |-> None]
    ELSE LET serial == zfill(str(m.count), WARC_SERIAL_ZFILL)
             fname == Path(env.cfg.warc_dest, env.t, serial)
         IN  IF env.cfg.warc_dest /= "" /\ env.cfg.warc_dest \notin Dirs
             THEN [err |-> "IOError:warc_dest not found", fname |-> None]
             ELSE [err |-> "ok", fname |-> fname]

\* faulty variant: the test against max_serial is missing
warcfile_NoSerialCheck(m, env) ==
    LET serial == zfill(str(m.count), WARC_SERIAL_ZFILL)
        fname == Path(env.cfg.warc_dest, env.t, serial)
    IN  IF env.cfg.warc_dest /= "" /\ env.cfg.warc_dest \notin Dirs
        THEN [err |-> "IOError:warc_dest not found", fname |-> None]
        ELSE IF fname \in DOMAIN m.fs
        THEN [err |-> "IOError:WARC file exists", fname |-> fname]
        ELSE [err |-> "ok", fname |-> fname]

\* faulty variant: the test for the destination directory is missing
warcfile_NoDestCheck(m, env) ==
    IF m.count > max_serial
    THEN [err |-> "ValueError:max_serial", fname |-> None]
    ELSE LET serial == zfill(str(m.count), WARC_SERIAL_ZFILL)
             fname == Path(env.cfg.warc_dest, env.t, serial)
         IN  IF fname \in DOMAIN m.fs
             THEN [err |-> "IOError:WARC file exists", fname |-> fname]
             ELSE [err |-> "ok", fname |-> fname]

\* warcfile(): the new segment's name, or the exception it raises
warcfile(m, env) ==
    IF m.count > max_serial
    THEN [err |-> "ValueError:max_serial", fname |-> None]
    ELSE LET serial == zfill(str(m.count), WARC_SERIAL_ZFILL)
             fname == Path(env.cfg.warc_dest, env.t, serial)
         IN  IF env.cfg.warc_dest /= "" /\ env.cfg.warc_dest \notin Dirs
             THEN [err |-> "IOError:warc_dest not found", fname |-> None]
             ELSE IF fname \in DOMAIN m.fs
             THEN [err |-> "IOError:WARC file exists", fname |-> fname]
             ELSE [err |-> "ok", fname |-> fname]

\* the record handed to the container writer: the header list goes in as the
\* record's header block, the record type is the literal "response"
warc_record(headers, xid) ==
    [record_type |-> "response", headers |-> headers, xid |-> xid]

\* bytes one gzip member (one record) adds to the file
RecordDisk == 1

EmptyFile == [recs |-> <<>>, size |-> 0, own |-> "writer"]

\* faulty variant: the file is opened with 'wb' and loses what it held
append_Truncate(m, headers, x, env) ==
    LET k == m.appends + 1
        f == m.fname
        existed == f \in DOMAIN m.fs
        m1 == [m EXCEPT !.appends = k]
    IN  IF env.fault.at = k /\ env.fault.mode = "open"
        THEN raise(m1, "OSError", f)
        ELSE LET m2 == [m1 EXCEPT !.created =
                           IF existed THEN @ ELSE Append(@, f)]
             IN  IF env.fault.at = k /\ env.fault.mode = "write"
                 THEN raise([m2 EXCEPT !.fs = (f :> EmptyFile) @@ m.fs],
                            "OSError", f)
                 ELSE [m2 EXCEPT
                        !.fs = (f :> [EmptyFile EXCEPT
                                  !.recs = <<warc_record(headers, m.xid)>>,
                                  !.size = RecordDisk]) @@ m.fs,
                        !.log = Append(@, Event("append", f, m.count, existed,
                                                1, RecordDisk, FALSE, "ok"))]

\* open(self.warc_fname, 'ab') and writer.write_record(record)
append(m, headers, x, env) ==
    LET k == m.appends + 1
        f == m.fname
        existed == f \in DOMAIN m.fs
        file == IF existed THEN m.fs[f] ELSE EmptyFile
        m1 == [m EXCEPT !.appends = k]
    IN  IF env.fault.at = k /\ env.fault.mode = "open"
        THEN raise(m1, "OSError", f)
        ELSE LET m2 == [m1 EXCEPT !.created =
                           IF existed THEN @ ELSE Append(@, f)]
             IN  IF env.fault.at = k /\ env.fault.mode = "write"
                 THEN raise([m2 EXCEPT !.fs = (f :> file) @@ m.fs],
                            "OSError", f)
                 ELSE [m2 EXCEPT
                        !.fs = (f :> [file EXCEPT
                                  !.recs = Append(@, warc_record(headers, m.xid)),
                                  !.size = @ + RecordDisk]) @@ m.fs,
                        !.log = Append(@, Event("append", f, m.count, existed,
                                                Len(file.recs) + 1, RecordDisk, FALSE, "ok"))]

warcinfo_headers(m, env) ==
    Headers("warcinfo", warc_date(env), record_id(m), NoId, m.fname)

\* sys.getsizeof of the warcinfo payload
InfoContent == 1

RECURSIVE bump_serial(_, _, _), write_record(_, _, _, _), write_warcinfo(_, _)

\* faulty variant: the counter is incremented before the name is computed
bump_serial_IncrementFirst(m, content_bytes, env) ==
    LET exists == m.fname /= None /\ m.fname \in DOMAIN m.fs
        size == IF exists THEN m.fs[m.fname].size ELSE m.size
        create == create_new_warc(m.fname, exists, size, content_bytes,
                                  env.cfg.max_warc_size)
        m1 == [m EXCEPT !.size = size,
                        !.log = Append(@, Event("check", m.fname, m.count, exists,
                                                size, content_bytes, create, "ok"))]
    IN  IF ~create THEN m1
        ELSE LET mi == [m1 EXCEPT !.count = @ + 1]
                 wf == warcfile(mi, env)
             IN  IF wf.err /= "ok" THEN raise(mi, wf.err, wf.fname)
                 ELSE write_warcinfo([mi EXCEPT !.fname = wf.fname], env)

\* bump_serial(): the rotation check and, when it says so, the rotation
bump_serial(m, content_bytes, env) ==
    LET exists == m.fname /= None /\ m.fname \in DOMAIN m.fs
        size == IF exists THEN m.fs[m.fname].size ELSE m.size
        create == create_new_warc(m.fname, exists, size, content_bytes,
                                  env.cfg.max_warc_size)
        m1 == [m EXCEPT !.size = size,
                        !.log = Append(@, Event("check", m.fname, m.count, exists,
                                                size, content_bytes, create, "ok"))]
    IN  IF ~create THEN m1
        ELSE LET wf == warcfile(m1, env)
             IN  IF wf.err /= "ok" THEN raise(m1, wf.err, wf.fname)
                 ELSE LET m2 == write_warcinfo([m1 EXCEPT !.fname = wf.fname], env)
                      IN  IF m2.err /= "ok" THEN m2
                          ELSE [m2 EXCEPT !.count = @ + 1]

write_record(m, headers, x, env) ==
    IF m.depth >= MaxDepth THEN raise(m, "RecursionError", m.fname)
    ELSE LET m1 == bump_serial([m EXCEPT !.depth = @ + 1], x, env)
         IN  IF m1.err /= "ok" THEN m1
             ELSE LET m2 == append(m1, headers, x, env)
                  IN  IF m2.err /= "ok" THEN m2
                      ELSE [m2 EXCEPT !.depth = @ - 1]

write_warcinfo(m, env) ==
    write_record(took_id(m), warcinfo_headers(m, env),
                 InfoContent, env)

\* faulty variant: the request is linked to its own identifier
request_headers_SelfLink(request, concurrent_to, id, env) ==
    Headers("request", request.date, id, id, None)

request_headers(request, concurrent_to, id, env) ==
    Headers("request", request.date, id, concurrent_to, None)

\* faulty variant: the request record reuses the response's identifier
write_request_ReuseId(m, request, concurrent_to, x, env) ==
    write_record(m,
                 request_headers(request, concurrent_to, concurrent_to, env),
                 x, env)

\* write_request(): a fresh identifier, the header list, write_record
write_request(m, request, concurrent_to, x, env) ==
    write_record(took_id(m),
                 request_headers(request, concurrent_to, record_id(m), env),
                 x, env)

\* faulty variant: the response is dated at write time
response_headers_Now(request, id, env) ==
    Headers("response", warc_date(env), id, NoId, None)

response_headers(request, id, env) ==
    Headers("response", request.date, id, NoId, None)

\* faulty variant: the WARC-Date check is missing
Validate_NoDateCheck(response, request) ==
    IF ~response.has_status THEN "ValueError:Response missing HTTP status"
    ELSE IF ~response.has_body THEN "ValueError:Response missing body"
    ELSE IF ~request.has_method THEN "ValueError:Request missing method"
    ELSE IF ~request.has_meta THEN "ValueError:Request missing meta"
    ELSE "ok"

\* the checks at the top of write(): the first that fails names the error
Validate(response, request) ==
    IF ~response.has_status THEN "ValueError:Response missing HTTP status"
    ELSE IF ~response.has_body THEN "ValueError:Response missing body"
    ELSE IF ~request.has_method THEN "ValueError:Request missing method"
    ELSE IF ~request.has_meta THEN "ValueError:Request missing meta"
    ELSE IF request.date = NoDate THEN "ValueError:Request missing WARC-Date"
    ELSE "ok"

write(m, response, request, xr, xq, env) ==
    LET v == Validate(response, request)
    IN  IF v /= "ok" THEN raise(m, v, None)
        ELSE LET id == record_id(m)
                 m1 == write_record(took_id(m), response_headers(request, id, env),
                                    xr, env)
             IN  IF m1.err /= "ok" THEN m1
                 ELSE write_request(m1, request, id, xq, env)


\* ------------------------------------------------------------ the system
Machine(xid) ==
    [fname |-> warc_fname, count |-> warc_count, size |-> warc_size, fs |-> fs,
     nextId |-> nextId, created |-> created, err |-> "ok", log |-> <<>>,
     depth |-> 0, appends |-> 0, xid |-> xid]

Response(has_status, has_body) ==
    [has_status |-> has_status, has_body |-> has_body]
Request(has_method, has_meta, date) ==
    [has_method |-> has_method, has_meta |-> has_meta, date |-> date]

\* an exchange as Scrapy delivers it: every attribute present
Wellformed(response, request) ==
    /\ response.has_status /\ response.has_body
    /\ request.has_method /\ request.has_meta /\ request.date /= NoDate

Sizes == 1..MaxContent

NoCall == [response |-> Response(TRUE, TRUE), request |-> Request(TRUE, TRUE, NoDate),
           err |-> "none", log |-> <<>>]

\* a segment left by an earlier run with the same prefix and host: it has
\* the name this writer computes for its second segment in second LastTime
Foreign == [recs |-> <<>>, size |-> 1, own |-> "foreign"]
ForeignPath == Path("", LastTime, zfill(str(1), WARC_SERIAL_ZFILL))

\* the writer as constructed: warc_count = 0, no segment
InitFresh ==
    /\ warc_fname = None /\ warc_count = 0 /\ nextId = 0 /\ created = <<>>
    /\ config \in [max_warc_size : {MaxWarcSize - 1, MaxWarcSize}, warc_dest : Dests]
    /\ \E pre \in {{}, {ForeignPath}} :
           /\ pre /= {} => config.warc_dest = ""
           /\ fs = [p \in pre |-> Foreign]

\* the same writer late in its life: LateCount rotations done, one serial
\* left; its newest segment holds the warcinfo record and one exchange (the
\* older segments, which no operation touches again, are left out)
LateCount == max_serial
LateSegment == Path("", 0, zfill(str(LateCount - 1), WARC_SERIAL_ZFILL))
LateRecords ==
    <<warc_record(Headers("warcinfo", 0, 0, NoId, LateSegment), 0),
      warc_record(Headers("response", 0, 1, NoId, None), 0),
      warc_record(Headers("request", 0, 2, 1, None), 0)>>

InitLate ==
    /\ warc_fname = LateSegment /\ warc_count = LateCount /\ nextId = 3
    /\ created = <<LateSegment>>
    /\ config = [max_warc_size |-> MaxWarcSize, warc_dest |-> ""]
    /\ fs = [p \in {LateSegment} |->
               [recs |-> LateRecords, size |-> 3 * RecordDisk, own |-> "writer"]]

Init ==
    /\ InitFresh \/ InitLate
    /\ warc_size = 0 /\ now = 0 /\ calls = 0 /\ last = NoCall
    /\ pending = {} /\ faults = 0 /\ exhausted = FALSE

\* one call of ScrapyWarcIo.write, from entry to return or exception
DoWrite(response, request, xr, xq, fault) ==
    LET env == [t |-> now, cfg |-> config, fault |-> fault]
        m == write(Machine(calls + 1), response, request, xr, xq, env)
    IN  /\ warc_fname' = m.fname
        /\ warc_count' = m.count
        /\ warc_size' = m.size
        /\ fs' = m.fs
        /\ nextId' = m.nextId
        /\ created' = m.created
        /\ calls' = calls + 1
        /\ last' = [response |-> response, request |-> request,
                    err |-> m.err, log |-> m.log]
        /\ faults' = IF m.err = "OSError"
                     THEN faults + 1 ELSE faults
        /\ exhausted' = (exhausted \/ m.err = "ValueError:max_serial")
        /\ UNCHANGED <<config, now>>

\* WarcioDownloaderMiddleware.process_request: stamp the request (requests
\* beyond the calls the behaviour may still make are not generated)
process_request ==
    /\ Cardinality(pending) + calls < MaxCalls
    /\ pending' = pending \cup {warc_date([t |-> now])}
    /\ UNCHANGED <<warc_fname, warc_count, warc_size, config, fs, now, nextId,
                   faults, created, calls, exhausted, last>>

\* WarcioDownloaderMiddleware.process_response: write the exchange
process_response ==
    \E d \in pending, xr \in Sizes, xq \in Sizes,
       fault \in {NoFault} \cup (IF faults < MaxFaults THEN Faults ELSE {}) :
        /\ calls < MaxCalls
        /\ pending' = pending \ {d}
        /\ DoWrite(Response(TRUE, TRUE), Request(TRUE, TRUE, d), xr, xq, fault)

\* the exchanges write() is given with one thing missing: the response's
\* status or body, the request's method, meta or WARC-Date
Malformed ==
    {<<Response(FALSE, TRUE), Request(TRUE, TRUE, now)>>,
     <<Response(TRUE, FALSE), Request(TRUE, TRUE, now)>>,
     <<Response(TRUE, TRUE), Request(FALSE, TRUE, now)>>,
     <<Response(TRUE, TRUE), Request(TRUE, FALSE, NoDate)>>,
     <<Response(TRUE, TRUE), Request(TRUE, TRUE, NoDate)>>}

\* write() called with a malformed exchange
write_malformed ==
    \E ex \in Malformed :
        /\ ~Wellformed(ex[1], ex[2])
        /\ calls < MaxCalls
        /\ DoWrite(ex[1], ex[2], 1, 1, NoFault)
        /\ UNCHANGED pending

\* a second passes
Tick ==
    /\ now < LastTime
    /\ now' = now + 1
    /\ UNCHANGED <<warc_fname, warc_count, warc_size, config, fs, nextId,
                   pending, faults, created, calls, exhausted, last>>

Next == process_request \/ process_response \/ write_malformed \/ Tick

Spec == Init /\ [][Next]_vars


\* ------------------------------------------------------------ vocabulary
\* every record on disk with its place: <<path, index>>
Places == UNION {{<<p, i>> : i \in 1..Len(fs[p].recs)} : p \in DOMAIN fs}
RecAt(pl) == fs[pl[1]].recs[pl[2]]
TypeAt(pl) == RecAt(pl).headers.type
OwnFiles == {p \in DOMAIN fs : fs[p].own = "writer"}

ValidationErrors ==
    {"ValueError:Response missing HTTP status", "ValueError:Response missing body",
     "ValueError:Request missing method", "ValueError:Request missing meta",
     "ValueError:Request missing WARC-Date"}

WriteStep == calls' = calls + 1


\* ---------------------------------------------------------------- claims

\* C1. Pair locality: a response record and the request record linked to it
\* (the request's WARC-Concurrent-To is the response's WARC-Record-ID) are in
\* the same segment file.
C1_PairLocality ==
    \A r \in Places, q \in Places :
        (/\ TypeAt(r) = "response" /\ TypeAt(q) = "request"
         /\ RecAt(q).headers.concurrent_to = RecAt(r).headers.id)
        => r[1] = q[1]

\* C2. Validation is atomic: a write() call whose exchange lacks the status,
\* the body, the method, the meta or the WARC-Date ends in the validation
\* error and leaves the files, the record identifiers, the current path and
\* the serial counter as they were.
C2_ValidationAtomic ==
    [][(WriteStep /\ ~Wellformed(last'.response, last'.request))
       => /\ last'.err \in ValidationErrors
          /\ fs' = fs /\ created' = created
          /\ warc_fname' = warc_fname /\ warc_count' = warc_count
          /\ warc_size' = warc_size /\ nextId' = nextId]_vars

\* C2 witness: an exchange without WARC-Date was rejected by a writer that
\* already has a segment with an exchange in it
C2_Witness ==
    /\ last.err = "ValueError:Request missing WARC-Date"
    /\ warc_fname /= None
    /\ \E q \in Places : TypeAt(q) = "request" /\ RecAt(q).xid = 1

\* C3. Every segment file of the writer that holds a record has a warcinfo
\* record as its first record.
C3_WarcinfoFirst ==
    \A p \in OwnFiles :
        Len(fs[p].recs) >= 1 => fs[p].recs[1].headers.type = "warcinfo"


\* the steps of the last write() call
Log == last.log
IsCheck(i) == i \in DOMAIN Log /\ Log[i].ev = "check"
IsAppend(i) == i \in DOMAIN Log /\ Log[i].ev = "append"
IsRaise(i) == i \in DOMAIN Log /\ Log[i].ev = "raise"

\* C4. Rotation threshold: a rotation check with estimate E rotates exactly
\* when there is no current segment, or the current segment is on disk with
\* size S and S + E >= M.  When it does not rotate, the record that follows
\* is appended to the current segment; when it rotates, the records that
\* follow go to a new segment: its warcinfo record first, then the record
\* the check was made for.
C4_RotationThreshold ==
    \A i \in DOMAIN Log :
        IsCheck(i) =>
            LET e == Log[i] IN
            /\ e.create <=> (\/ e.path = None
                             \/ e.exists /\ e.size + e.bytes >= config.max_warc_size)
            /\ (~e.create /\ IsAppend(i + 1)) =>
                   /\ Log[i + 1].path = e.path
                   /\ Len(fs[e.path].recs) >= Log[i + 1].size
            /\ (~e.create /\ i + 1 \in DOMAIN Log) => ~IsCheck(i + 1)
            /\ (e.create /\ i + 1 \in DOMAIN Log /\ ~IsRaise(i + 1)) =>
                   /\ IsCheck(i + 1) /\ Log[i + 1].path /= e.path
                   /\ ~Log[i + 1].exists /\ ~Log[i + 1].create
                   /\ IsAppend(i + 2) =>
                          /\ Log[i + 2].path = Log[i + 1].path
                          /\ Log[i + 2].size = 1
                          /\ fs[Log[i + 2].path].recs[1].headers.type = "warcinfo"
                   /\ IsAppend(i + 3) =>
                          /\ Log[i + 3].path = Log[i + 1].path
                          /\ Log[i + 3].size = 2
                          /\ fs[Log[i + 3].path].recs[2].headers.type
                                 \in {"response", "request"}

\* C4 witness: a check at exactly S + E = M rotated and its record went in
\* second place into the new segment, and in the same call a check below the
\* threshold appended to the current segment
C4_Witness ==
    /\ \E i \in DOMAIN Log :
          /\ IsCheck(i) /\ Log[i].exists /\ Log[i].create
          /\ Log[i].size + Log[i].bytes = config.max_warc_size
          /\ IsAppend(i + 3) /\ Log[i + 3].size = 2
    /\ \E i \in DOMAIN Log :
          /\ IsCheck(i) /\ Log[i].exists /\ ~Log[i].create
          /\ Log[i].size + Log[i].bytes = config.max_warc_size - 1
          /\ IsAppend(i + 1)

NameFor(c) == Path(config.warc_dest, now, zfill(str(c), WARC_SERIAL_ZFILL))

\* the records the steps before step i of the call appended to file p
AppendsBefore(log, i, p) ==
    Cardinality({j \in 1..(i - 1) : log[j].ev = "append" /\ log[j].path = p})
RecsOf(files, p) == IF p \in DOMAIN files THEN files[p].recs ELSE <<>>

\* C7. Collision: when a rotation computes a path at which a file exists,
\* the call ends there with an error: nothing is written to that file from
\* then on (it holds what it held before the call and what the call had
\* appended to it before the rotation), and the current path and the serial
\* counter are what they were when the rotation began.
C7_Collision ==
    [][WriteStep =>
        \A i \in DOMAIN last'.log :
            LET log == last'.log
                e == log[i]
                p == NameFor(e.count)
            IN  (/\ e.ev = "check" /\ e.create /\ e.count <= max_serial
                 /\ (config.warc_dest = "" \/ config.warc_dest \in Dirs)
                 /\ (p \in DOMAIN fs \/ AppendsBefore(log, i, p) > 0))
                => /\ i + 1 = Len(log)
                   /\ log[i + 1].ev = "raise"
                   /\ last'.err = "IOError:WARC file exists"
                   /\ p \in DOMAIN fs'
                   /\ Len(fs'[p].recs) = Len(RecsOf(fs, p)) + AppendsBefore(log, i, p)
                   /\ SubSeq(fs'[p].recs, 1, Len(RecsOf(fs, p))) = RecsOf(fs, p)
                   /\ warc_fname' = e.path /\ warc_count' = e.count]_vars

\* C7 witness: a rotation away from a current segment ran into the file left
\* by an earlier run
C7_Witness ==
    /\ last.err = "IOError:WARC file exists"
    /\ warc_fname /= None /\ warc_fname /= ForeignPath
    /\ Log[Len(Log)].path = ForeignPath
    /\ fs[ForeignPath] = Foreign

\* C8. Serial monotonicity: the serials in the names of the segments the
\* writer creates, in order of creation, strictly increase, and each is
\* rendered with WARC_SERIAL_ZFILL digits.
C8_SerialsIncrease ==
    /\ \A i \in DOMAIN created : Len(created[i].serial) = WARC_SERIAL_ZFILL
    /\ \A i \in DOMAIN created, j \in DOMAIN created :
           i < j => int(created[i].serial) < int(created[j].serial)

\* C9. Serial overflow: no segment is created with a serial above max_serial
\* or wider than WARC_SERIAL_ZFILL digits, and a rotation that starts with
\* the counter above max_serial ends the call with an error, the counter
\* unchanged.
C9_SerialBounded ==
    /\ \A i \in DOMAIN created :
           /\ int(created[i].serial) <= max_serial
           /\ Len(created[i].serial) = WARC_SERIAL_ZFILL
    /\ \A p \in DOMAIN fs :
           int(p.serial) <= max_serial /\ Len(p.serial) = WARC_SERIAL_ZFILL
    /\ \A i \in DOMAIN Log :
           (IsCheck(i) /\ Log[i].create /\ Log[i].count > max_serial)
           => /\ i + 1 = Len(Log) /\ IsRaise(i + 1)
              /\ last.err = "ValueError:max_serial"
              /\ warc_count = Log[i].count

\* C9 witness: the last serial, max_serial, has been given to a segment and
\* the rotation after it was refused
C9_Witness ==
    /\ last.err = "ValueError:max_serial"
    /\ \E i \in DOMAIN created : int(created[i].serial) = max_serial

\* C10. Serial exhaustion is fatal: once a call has failed on the serial
\* limit, every later write() call fails and no record is written.
C10_ExhaustionFatal ==
    [][(exhausted /\ WriteStep) => (last'.err /= "ok" /\ fs' = fs)]_vars

\* the WARC-Type headers of a file's records, in file order
TypesOf(recs) == [i \in DOMAIN recs |-> recs[i].headers.type]

\* a writer as constructed: no segment yet and nothing counted
FreshWriter == warc_fname = None /\ warc_count = 0 /\ created = <<>>
DestExists == config.warc_dest = "" \/ config.warc_dest \in Dirs

\* C11. First exchange on a fresh writer: when a well-formed exchange is
\* written by a writer that has no segment yet (the destination exists and
\* no I/O fault hits the call) and the estimates of its response and its
\* request together are below max_warc_size, the call creates exactly one
\* segment and that segment then holds exactly the records
\* [warcinfo, response, request].  (Steps 1 and 5 of the call are the checks
\* made for the response and for the request.)
C11_FirstExchange ==
    [][(/\ WriteStep /\ FreshWriter /\ DestExists
        /\ Wellformed(last'.response, last'.request)
        /\ last'.err /= "OSError")
       => /\ Len(last'.log) >= 5
          /\ last'.log[1].ev = "check" /\ last'.log[5].ev = "check"
          /\ (last'.log[1].bytes + last'.log[5].bytes < config.max_warc_size)
             => /\ Len(created') = 1
                /\ TypesOf(fs'[created'[1]].recs)
                       = <<"warcinfo", "response", "request">>]_vars

\* C12. Missing destination: while the configured destination is non-empty
\* and does not exist, the writer has no current segment and no file; every
\* write() call with a well-formed exchange ends in the destination error
\* and leaves the files, the current path (None) and the serial counter as
\* they were.
C12_MissingDest ==
    [][(WriteStep /\ ~DestExists /\ Wellformed(last'.response, last'.request))
       => /\ warc_fname = None /\ fs = <<>>
          /\ last'.err = "IOError:warc_dest not found"
          /\ \A i \in DOMAIN last'.log : last'.log[i].ev /= "append"
          /\ fs' = fs /\ created' = created /\ created' = <<>>
          /\ warc_fname' = None /\ warc_count' = warc_count]_vars

\* C12 witness: two write attempts in a row have failed on the missing
\* destination and there is still no segment and no file
C12_Witness ==
    /\ ~DestExists /\ calls = 2
    /\ Wellformed(last.response, last.request)
    /\ last.err = "IOError:warc_dest not found"
    /\ warc_fname = None /\ fs = <<>>

\* C13. Record kind: every record a write() call has persisted has the
\* record type of the operation that produced it: the type the container
\* writer is given (record_type) is the WARC-Type the operation asked for:
\* warcinfo on rotation, response for the response, request for the request.
C13_RecordKind ==
    \A pl \in Places :
        RecAt(pl).xid >= 1 => RecAt(pl).record_type = RecAt(pl).headers.type

\* C14. Identifier uniqueness: no two records on disk (warcinfo, response or
\* request, in any segment) have the same WARC-Record-ID, and every
\* identifier on disk has already been given out by the generator, so the
\* next record's identifier differs from all of them.
C14_UniqueIds ==
    /\ \A a \in Places, b \in Places :
           RecAt(a).headers.id = RecAt(b).headers.id => a = b
    /\ \A a \in Places :
           RecAt(a).headers.id /= NoId /\ RecAt(a).headers.id < nextId

\* C14 witness: two exchanges and two rotations are on disk: at least six
\* records of all three kinds in at least two segments
C14_Witness ==
    /\ Cardinality(Places) >= 6 /\ Cardinality(OwnFiles) >= 2
    /\ \E a \in Places, b \in Places :
           /\ TypeAt(a) = "request" /\ TypeAt(b) = "request"
           /\ RecAt(a).xid = 1 /\ RecAt(b).xid = 2
    /\ \E a \in Places : TypeAt(a) = "warcinfo" /\ RecAt(a).xid = 2

\* the WARC-Type of the record that step j of a call appended, read from the
\* files as the call left them
AppendedType(files, log, j) == files[log[j].path].recs[log[j].size].headers.type

\* C15. One rotation decision per exchange: in a write() call with a
\* well-formed exchange no rotation check is made after the response record
\* or the request record has been appended, and the call creates at most
\* one new segment.
C15_OneDecision ==
    [][(WriteStep /\ Wellformed(last'.response, last'.request))
       => /\ Len(created') <= Len(created) + 1
          /\ \A j \in DOMAIN last'.log, i \in DOMAIN last'.log :
                 (/\ last'.log[j].ev = "append"
                  /\ AppendedType(fs', last'.log, j) \in {"response", "request"}
                  /\ i > j)
                 => last'.log[i].ev /= "check"]_vars

\* step i of the last call is a rotation check that rotated and got a name
\* for the new segment (the nested check of step i + 1 sees that name)
Rotated(i) == IsCheck(i) /\ Log[i].create /\ IsCheck(i + 1)

\* C16. Rotation order, as claimed: the serial in a new segment's name is
\* the counter's value after the increment, one more than the value the
\* rotation began with (the first segment's serial is 00001).
C16_IncrementFirst ==
    \A i \in DOMAIN Log :
        Rotated(i) => int(Log[i + 1].path.serial) = Log[i].count + 1

\* C16, amended. The serial in a new segment's name is the counter's value
\* when the rotation began (the first segment's serial is 00000), rendered
\* with WARC_SERIAL_ZFILL digits; the counter still has that value while the
\* warcinfo record is written and is one more when the rotation has
\* returned.
C16_NameThenIncrement ==
    \A i \in DOMAIN Log :
        Rotated(i) =>
            /\ int(Log[i + 1].path.serial) = Log[i].count
            /\ Len(Log[i + 1].path.serial) = WARC_SERIAL_ZFILL
            /\ Log[i].count = 0 => Log[i + 1].path.serial = <<0, 0, 0, 0, 0>>
            /\ Log[i + 1].count = Log[i].count
            /\ i + 2 \in DOMAIN Log => Log[i + 2].count = Log[i].count
            /\ i + 3 \in DOMAIN Log => Log[i + 3].count = Log[i].count + 1

\* C16 witness: a call rotated twice, from counter 0 to segment 00000 and
\* from counter 1 to segment 00001, and the counter is 2
C16_Witness ==
    /\ warc_count = 2 /\ last.err = "ok"
    /\ \E i \in DOMAIN Log, j \in DOMAIN Log :
           /\ Rotated(i) /\ Log[i].count = 0 /\ IsAppend(i + 3)
           /\ Rotated(j) /\ Log[j].count = 1 /\ IsAppend(j + 3)
           /\ int(Log[j + 1].path.serial) = 1

RotationErrors ==
    {"IOError:warc_dest not found", "IOError:WARC file exists",
     "ValueError:max_serial"}

\* C17. Rotation errors precede all records of the exchange: when the last
\* write() call ended in a rotation error (destination missing, name
\* collision or serial limit), no response record and no request record of
\* that call's exchange is on disk.
C17_RotationErrorFirst ==
    (calls >= 1 /\ last.err \in RotationErrors)
    => \A pl \in Places :
           RecAt(pl).xid = calls => TypeAt(pl) \notin {"response", "request"}

\* C18. Rotation is all-or-nothing: when the last call ended because the
\* write of the warcinfo record failed inside a rotation, the current path
\* and the serial counter are what they were when that rotation began; and
\* in every state the current path, when set, names a file whose first
\* record is the warcinfo record and whose serial is below the counter.
C18_RotationAtomic ==
    /\ \A i \in DOMAIN Log :
           (Rotated(i) /\ IsRaise(i + 2) /\ i + 2 = Len(Log))
           => warc_fname = Log[i].path /\ warc_count = Log[i].count
    /\ warc_fname /= None
       => /\ warc_fname \in DOMAIN fs
          /\ Len(fs[warc_fname].recs) >= 1
          /\ fs[warc_fname].recs[1].headers.type = "warcinfo"
          /\ int(warc_fname.serial) < warc_count

Warcinfos(recs) == {k \in DOMAIN recs : recs[k].headers.type = "warcinfo"}
Steps(kind) == {i \in DOMAIN Log : Log[i].ev = kind}

\* C19. Rotation terminates: the check nested in a rotation (made for the
\* warcinfo record) sees the new name, finds no file there and does not
\* rotate, so no call runs into the nesting limit; a rotation whose warcinfo
\* write succeeds creates one file with that write, puts the warcinfo
\* record in its first place and leaves the counter one higher; no segment
\* has more than one warcinfo record; and in a call that returns, every
\* write_record has made one check and one append.
C19_RotationTerminates ==
    /\ last.err /= "RecursionError"
    /\ \A i \in DOMAIN Log :
           Rotated(i) =>
               /\ ~Log[i + 1].create /\ ~Log[i + 1].exists
               /\ Log[i + 1].path /= Log[i].path
               /\ IsAppend(i + 2) \/ (IsRaise(i + 2) /\ i + 2 = Len(Log))
               /\ IsAppend(i + 2) =>
                      /\ Log[i + 2].path = Log[i + 1].path
                      /\ ~Log[i + 2].exists /\ Log[i + 2].size = 1
                      /\ Warcinfos(fs[Log[i + 2].path].recs) = {1}
                      /\ i + 3 \in DOMAIN Log
                      /\ Log[i + 3].count = Log[i].count + 1
                      /\ ~IsCheck(i + 3)
    /\ \A p \in OwnFiles : Cardinality(Warcinfos(fs[p].recs)) <= 1
    /\ last.err = "ok" => Cardinality(Steps("check")) = Cardinality(Steps("append"))

\* C19 witness: the second call returned after a rotation away from a
\* segment on disk: three steps after the rotating check the record it was
\* made for is appended
C19_Witness ==
    /\ calls = 2 /\ last.err = "ok"
    /\ \E i \in DOMAIN Log :
           /\ Rotated(i) /\ Log[i].exists /\ Log[i].path /= None
           /\ IsAppend(i + 2) /\ IsAppend(i + 3)
           /\ Log[i + 3].path = Log[i + 1].path

IsPrefix(s, t) == Len(s) <= Len(t) /\ SubSeq(t, 1, Len(s)) = s
Pos(seq, p) == CHOOSE n \in DOMAIN seq : seq[n] = p

\* the steps before step j at which an append created its file
NewBefore(log, j) ==
    {i \in 1..(j - 1) : log[i].ev = "append" /\ ~log[i].exists}

\* C20. Append-only to the newest segment: a step removes no file and
\* leaves every file's records as a prefix of what the file holds
\* afterwards; a file other than the current segment is not changed at all;
\* and within a call the appends follow the order in which the segments
\* were created: each goes to a segment the writer created, never to one
\* created before the segment of an earlier append, and an append to a file
\* that is already there goes to the file the writer created last.
C20_AppendOnly ==
    [][/\ \A p \in DOMAIN fs :
              /\ p \in DOMAIN fs'
              /\ IsPrefix(fs[p].recs, fs'[p].recs)
              /\ fs'[p].own = fs[p].own
              /\ p /= warc_fname => fs'[p] = fs[p]
       /\ IsPrefix(created, created')
       /\ WriteStep =>
              LET log == last'.log
                  A == {j \in DOMAIN log : log[j].ev = "append"}
              IN  /\ \A j \in A :
                         /\ \E n \in DOMAIN created' : created'[n] = log[j].path
                         /\ log[j].size = Len(RecsOf(fs, log[j].path))
                                + AppendsBefore(log, j, log[j].path) + 1
                         /\ Len(fs'[log[j].path].recs) >= log[j].size
                  /\ \A j \in A, k \in A :
                         j < k => Pos(created', log[j].path) <= Pos(created', log[k].path)
                  /\ \A j \in A :
                         log[j].exists =>
                             LET N == NewBefore(log, j)
                             IN  IF N = {}
                                 THEN /\ created /= <<>>
                                      /\ log[j].path = created[Len(created)]
                                 ELSE \E i \in N :
                                          /\ \A h \in N : h <= i
                                          /\ log[j].path = log[i].path]_vars

\* C20 witness: the last call appended a record to an existing segment,
\* rotated and appended to the new one, while an older segment kept its
\* records
C20_Witness ==
    /\ last.err = "ok" /\ Len(created) >= 3
    /\ \E j \in DOMAIN Log, k \in DOMAIN Log :
           /\ IsAppend(j) /\ IsAppend(k) /\ j < k
           /\ Log[j].exists /\ Log[j].path = created[Len(created) - 1]
           /\ Log[k].path = created[Len(created)]
    /\ Len(fs[created[1]].recs) >= 2

====
